---- MODULE Spec2Model ----
(***************************************************************************)
(* Model of the adjacency-list maze graph (graph/adjacency_list.py) and of *)
(* Kruskal's minimum spanning tree with union-find (MST/kruskals.py).      *)
(*                                                                         *)
(* A Coordinate is the pair <<row, col>>.  A graph object is a record      *)
(*   [rows, cols, vertices, adj_list]                                      *)
(* where vertices is the insertion-ordered list of coordinates and         *)
(* adj_list is a function whose DOMAIN is the set of present vertices and  *)
(* whose values are lists of <<neighbour, weight>> pairs.  Graph objects   *)
(* live in a heap (a sequence of records) and are named by their index,    *)
(* so that "the same instance" and "an equal instance" are different.      *)
(***************************************************************************)
EXTENDS Integers, Sequences, FiniteSets

VARIABLES heap, graph, mst, phase, forest

vars == <<heap, graph, mst, phase, forest>>

(***************************************************************************)
(* Bounds of the model.                                                    *)
(***************************************************************************)
\* largest row index of a coordinate handed to the graph
MaxRow == 1
\* largest column index of a coordinate handed to the graph
MaxCol == 1
\* largest weight argument handed to addEdge / updateWall
MaxWeight == 2

Coords == (0..MaxRow) \X (0..MaxCol)

\* longest list handed to addVertices by a caller
MaxList == 2

\* weight arguments: negative, zero and positive
Weights == (-1)..MaxWeight

\* Python's None as the result of _get_edge: no <<neighbour, weight>> entry
None == <<>>

(***************************************************************************)
(* Coordinate                                                              *)
(***************************************************************************)
Abs(x) == IF x < 0 THEN -x ELSE x

\* Coordinate.isAdjacent: Manhattan distance exactly 1
isAdjacent(a, b) == Abs(a[1] - b[1]) + Abs(a[2] - b[2]) = 1

(***************************************************************************)
(* AdjacencyListGraph                                                      *)
(***************************************************************************)
\* mutant of __init__: the shape arguments stored the wrong way round
NewGraph_swapped(rows, cols) ==
    [rows |-> cols, cols |-> rows, vertices |-> <<>>, adj_list |-> <<>>]

\* __init__: empty vertex list, empty adjacency dictionary
NewGraph(rows, cols) ==
    [rows |-> rows, cols |-> cols, vertices |-> <<>>, adj_list |-> <<>>]

\* dictionary assignment  d[k] = val  (inserts the key when it is absent)
DictPut(d, k, val) ==
    [x \in (DOMAIN d) \cup {k} |-> IF x = k THEN val ELSE d[x]]

\* addVertex: only a label that is not yet a key is added
addVertex(g, label) ==
    IF label \notin DOMAIN g.adj_list
    THEN [g EXCEPT !.adj_list = DictPut(g.adj_list, label, <<>>),
                   !.vertices = Append(g.vertices, label)]
    ELSE g

\* the first index i >= from of list with list[i][1] = v, or 0
RECURSIVE IndexOf(_, _, _)
IndexOf(list, v, from) ==
    IF from > Len(list) THEN 0
    ELSE IF list[from][1] = v THEN from
    ELSE IndexOf(list, v, from + 1)

\* _get_edge: the first (vert2, weight) entry of vert1's list, or None
get_edge(g, vert1, vert2) ==
    IF vert1 \notin DOMAIN g.adj_list THEN None
    ELSE LET i == IndexOf(g.adj_list[vert1], vert2, 1)
         IN IF i = 0 THEN None ELSE g.adj_list[vert1][i]

\* mutant of _update_edge_in_list: the entry is found but not overwritten
update_edge_in_list_keep(g, vert1, vert2, weight) ==
    IF vert1 \notin DOMAIN g.adj_list THEN [ret |-> FALSE, g |-> g]
    ELSE LET i == IndexOf(g.adj_list[vert1], vert2, 1)
         IN IF i = 0 THEN [ret |-> FALSE, g |-> g]
            ELSE [ret |-> TRUE, g |-> g]

\* _update_edge_in_list: overwrite the weight of the first matching entry
update_edge_in_list(g, vert1, vert2, weight) ==
    IF vert1 \notin DOMAIN g.adj_list THEN [ret |-> FALSE, g |-> g]
    ELSE LET i == IndexOf(g.adj_list[vert1], vert2, 1)
         IN IF i = 0 THEN [ret |-> FALSE, g |-> g]
            ELSE [ret |-> TRUE,
                  g |-> [g EXCEPT !.adj_list[vert1][i] = <<vert2, weight>>]]

\* _remove_edge_from_list: drop every entry of vert1's list that names vert2
remove_edge_from_list(g, vert1, vert2) ==
    IF vert1 \notin DOMAIN g.adj_list THEN [ret |-> FALSE, g |-> g]
    ELSE LET old == g.adj_list[vert1]
             new == SelectSeq(old, LAMBDA e : e[1] # vert2)
         IN [ret |-> Len(new) < Len(old),
             g |-> [g EXCEPT !.adj_list[vert1] = new]]

\* mutant of addVertices: the labels are added last to first
RECURSIVE addVertices_reversed(_, _)
addVertices_reversed(g, vertLabels) ==
    IF vertLabels = <<>> THEN g
    ELSE addVertex(addVertices_reversed(g, Tail(vertLabels)), Head(vertLabels))

\* addVertices: addVertex for each label, in the order given
RECURSIVE addVertices(_, _)
addVertices(g, vertLabels) ==
    IF vertLabels = <<>> THEN g
    ELSE addVertices(addVertex(g, Head(vertLabels)), Tail(vertLabels))

\* mutant of addEdge: condition 1 (no edge already exists) is not checked
addEdge_duplicates(g, vert1, vert2, weight) ==
    IF vert1 \notin DOMAIN g.adj_list \/ vert2 \notin DOMAIN g.adj_list
    THEN [ret |-> FALSE, g |-> g]
    ELSE IF ~isAdjacent(vert1, vert2) THEN [ret |-> FALSE, g |-> g]
    ELSE IF weight <= 0 THEN [ret |-> FALSE, g |-> g]
    ELSE LET g1 == [g EXCEPT !.adj_list[vert1] = Append(@, <<vert2, weight>>)]
             g2 == [g1 EXCEPT !.adj_list[vert2] = Append(@, <<vert1, weight>>)]
         IN [ret |-> TRUE, g |-> g2]

\* addEdge
addEdge(g, vert1, vert2, weight) ==
    IF vert1 \notin DOMAIN g.adj_list \/ vert2 \notin DOMAIN g.adj_list
    THEN [ret |-> FALSE, g |-> g]
    ELSE IF ~isAdjacent(vert1, vert2) THEN [ret |-> FALSE, g |-> g]
    ELSE IF weight <= 0 THEN [ret |-> FALSE, g |-> g]
    ELSE IF get_edge(g, vert1, vert2) # None THEN [ret |-> FALSE, g |-> g]
    ELSE LET g1 == [g EXCEPT !.adj_list[vert1] = Append(@, <<vert2, weight>>)]
             g2 == [g1 EXCEPT !.adj_list[vert2] = Append(@, <<vert1, weight>>)]
         IN [ret |-> TRUE, g |-> g2]

\* mutant of updateWall: an existing edge is re-weighted in vert1's list only
updateWall_oneWay(g, vert1, vert2, hasWall, weight) ==
    IF \/ vert1 \notin DOMAIN g.adj_list
       \/ vert2 \notin DOMAIN g.adj_list
       \/ ~isAdjacent(vert1, vert2)
    THEN [ret |-> FALSE, g |-> g]
    ELSE IF hasWall
    THEN LET r1 == remove_edge_from_list(g, vert1, vert2)
             r2 == remove_edge_from_list(r1.g, vert2, vert1)
         IN [ret |-> TRUE, g |-> r2.g]
    ELSE IF weight <= 0 THEN [ret |-> FALSE, g |-> g]
    ELSE IF get_edge(g, vert1, vert2) # None
    THEN LET updated_1 == update_edge_in_list(g, vert1, vert2, weight)
         IN [ret |-> updated_1.ret, g |-> updated_1.g]
    ELSE LET g1 == [g EXCEPT !.adj_list[vert1] = Append(@, <<vert2, weight>>)]
             g2 == [g1 EXCEPT !.adj_list[vert2] = Append(@, <<vert1, weight>>)]
         IN [ret |-> TRUE, g |-> g2]

\* mutant of updateWall: the weight is not checked when a wall is removed
updateWall_anyWeight(g, vert1, vert2, hasWall, weight) ==
    IF \/ vert1 \notin DOMAIN g.adj_list
       \/ vert2 \notin DOMAIN g.adj_list
       \/ ~isAdjacent(vert1, vert2)
    THEN [ret |-> FALSE, g |-> g]
    ELSE IF hasWall
    THEN LET r1 == remove_edge_from_list(g, vert1, vert2)
             r2 == remove_edge_from_list(r1.g, vert2, vert1)
         IN [ret |-> TRUE, g |-> r2.g]
    ELSE IF get_edge(g, vert1, vert2) # None
    THEN LET updated_1 == update_edge_in_list(g, vert1, vert2, weight)
             updated_2 == update_edge_in_list(updated_1.g, vert2, vert1, weight)
         IN [ret |-> updated_1.ret /\ updated_2.ret, g |-> updated_2.g]
    ELSE LET g1 == [g EXCEPT !.adj_list[vert1] = Append(@, <<vert2, weight>>)]
             g2 == [g1 EXCEPT !.adj_list[vert2] = Append(@, <<vert1, weight>>)]
         IN [ret |-> TRUE, g |-> g2]

\* mutant of updateWall: the rooms are not checked for adjacency
updateWall_noAdjacency(g, vert1, vert2, hasWall, weight) ==
    IF \/ vert1 \notin DOMAIN g.adj_list
       \/ vert2 \notin DOMAIN g.adj_list
    THEN [ret |-> FALSE, g |-> g]
    ELSE IF hasWall
    THEN LET r1 == remove_edge_from_list(g, vert1, vert2)
             r2 == remove_edge_from_list(r1.g, vert2, vert1)
         IN [ret |-> TRUE, g |-> r2.g]
    ELSE IF weight <= 0 THEN [ret |-> FALSE, g |-> g]
    ELSE IF get_edge(g, vert1, vert2) # None
    THEN LET updated_1 == update_edge_in_list(g, vert1, vert2, weight)
             updated_2 == update_edge_in_list(updated_1.g, vert2, vert1, weight)
         IN [ret |-> updated_1.ret /\ updated_2.ret, g |-> updated_2.g]
    ELSE LET g1 == [g EXCEPT !.adj_list[vert1] = Append(@, <<vert2, weight>>)]
             g2 == [g1 EXCEPT !.adj_list[vert2] = Append(@, <<vert1, weight>>)]
         IN [ret |-> TRUE, g |-> g2]

\* mutant of updateWall: removing a wall always appends, an existing edge
\* is not looked for
updateWall_append(g, vert1, vert2, hasWall, weight) ==
    IF \/ vert1 \notin DOMAIN g.adj_list
       \/ vert2 \notin DOMAIN g.adj_list
       \/ ~isAdjacent(vert1, vert2)
    THEN [ret |-> FALSE, g |-> g]
    ELSE IF hasWall
    THEN LET r1 == remove_edge_from_list(g, vert1, vert2)
             r2 == remove_edge_from_list(r1.g, vert2, vert1)
         IN [ret |-> TRUE, g |-> r2.g]
    ELSE IF weight <= 0 THEN [ret |-> FALSE, g |-> g]
    ELSE LET g1 == [g EXCEPT !.adj_list[vert1] = Append(@, <<vert2, weight>>)]
             g2 == [g1 EXCEPT !.adj_list[vert2] = Append(@, <<vert1, weight>>)]
         IN [ret |-> TRUE, g |-> g2]

\* mutant of updateWall: adding a wall reports whether an edge was removed
updateWall_strictRemove(g, vert1, vert2, hasWall, weight) ==
    IF \/ vert1 \notin DOMAIN g.adj_list
       \/ vert2 \notin DOMAIN g.adj_list
       \/ ~isAdjacent(vert1, vert2)
    THEN [ret |-> FALSE, g |-> g]
    ELSE IF hasWall
    THEN LET r1 == remove_edge_from_list(g, vert1, vert2)
             r2 == remove_edge_from_list(r1.g, vert2, vert1)
         IN [ret |-> r1.ret /\ r2.ret, g |-> r2.g]
    ELSE IF weight <= 0 THEN [ret |-> FALSE, g |-> g]
    ELSE IF get_edge(g, vert1, vert2) # None
    THEN LET updated_1 == update_edge_in_list(g, vert1, vert2, weight)
             updated_2 == update_edge_in_list(updated_1.g, vert2, vert1, weight)
         IN [ret |-> updated_1.ret /\ updated_2.ret, g |-> updated_2.g]
    ELSE LET g1 == [g EXCEPT !.adj_list[vert1] = Append(@, <<vert2, weight>>)]
             g2 == [g1 EXCEPT !.adj_list[vert2] = Append(@, <<vert1, weight>>)]
         IN [ret |-> TRUE, g |-> g2]

\* updateWall
updateWall(g, vert1, vert2, hasWall, weight) ==
    IF \/ vert1 \notin DOMAIN g.adj_list
       \/ vert2 \notin DOMAIN g.adj_list
       \/ ~isAdjacent(vert1, vert2)
    THEN [ret |-> FALSE, g |-> g]
    ELSE IF hasWall
    THEN LET r1 == remove_edge_from_list(g, vert1, vert2)
             r2 == remove_edge_from_list(r1.g, vert2, vert1)
         IN [ret |-> TRUE, g |-> r2.g]
    ELSE IF weight <= 0 THEN [ret |-> FALSE, g |-> g]
    ELSE IF get_edge(g, vert1, vert2) # None
    THEN LET updated_1 == update_edge_in_list(g, vert1, vert2, weight)
             updated_2 == update_edge_in_list(updated_1.g, vert2, vert1, weight)
         IN [ret |-> updated_1.ret /\ updated_2.ret, g |-> updated_2.g]
    ELSE LET g1 == [g EXCEPT !.adj_list[vert1] = Append(@, <<vert2, weight>>)]
             g2 == [g1 EXCEPT !.adj_list[vert2] = Append(@, <<vert1, weight>>)]
         IN [ret |-> TRUE, g |-> g2]

\* removeEdge: updateWall with hasWall = True and the default weight 1
removeEdge(g, vert1, vert2) == updateWall(g, vert1, vert2, TRUE, 1)

\* hasVertex
hasVertex(g, label) == label \in DOMAIN g.adj_list

\* hasEdge: an entry exists and its weight is positive
hasEdge(g, vert1, vert2) ==
    LET edge == get_edge(g, vert1, vert2)
    IN edge # None /\ edge[2] > 0

\* mutant of getWallStatus: the last test is inverted (is not None)
getWallStatus_inverted(g, vert1, vert2) ==
    IF ~isAdjacent(vert1, vert2) THEN TRUE
    ELSE IF vert1 \notin DOMAIN g.adj_list \/ vert2 \notin DOMAIN g.adj_list
    THEN TRUE
    ELSE get_edge(g, vert1, vert2) # None

\* getWallStatus
getWallStatus(g, vert1, vert2) ==
    IF ~isAdjacent(vert1, vert2) THEN TRUE
    ELSE IF vert1 \notin DOMAIN g.adj_list \/ vert2 \notin DOMAIN g.adj_list
    THEN TRUE
    ELSE get_edge(g, vert1, vert2) = None

\* getWeight: the weight of the entry when it is positive, else 0
getWeight(g, vert1, vert2) ==
    LET edge == get_edge(g, vert1, vert2)
    IN IF edge # None /\ edge[2] > 0 THEN edge[2] ELSE 0

\* getVertices
getVertices(g) == g.vertices

\* the neighbours of the entries of list whose weight is positive, in order
RECURSIVE PositiveNeighbours(_)
PositiveNeighbours(list) ==
    IF list = <<>> THEN <<>>
    ELSE IF Head(list)[2] > 0
         THEN <<Head(list)[1]>> \o PositiveNeighbours(Tail(list))
         ELSE PositiveNeighbours(Tail(list))

\* neighbours
neighbours(g, label) ==
    IF label \notin DOMAIN g.adj_list THEN <<>>
    ELSE PositiveNeighbours(g.adj_list[label])

(***************************************************************************)
(* Union-find (MST/kruskals.py)                                            *)
(***************************************************************************)
\* mutant of find: one step up the chain instead of the walk to the root
find_shallow(coord, parent) ==
    [root |-> parent[coord], parent |-> parent]

\* find: the root of coord; every vertex on the path is re-parented to it.
\* Returns the root together with the parent map after the compression.
RECURSIVE find(_, _)
find(coord, parent) ==
    IF parent[coord] # coord
    THEN LET r == find(parent[coord], parent)
         IN [root |-> r.root, parent |-> [r.parent EXCEPT ![coord] = r.root]]
    ELSE [root |-> parent[coord], parent |-> parent]

\* mutant of union: the roots are not compared, every call attaches and
\* reports success
union_always(a, b, parent) ==
    LET fa == find(a, parent)
        fb == find(b, fa.parent)
    IN [ret |-> TRUE, parent |-> [fb.parent EXCEPT ![fb.root] = fa.root]]

\* mutant of union: the comparison of the roots is inverted
union_inverted(a, b, parent) ==
    LET fa == find(a, parent)
        fb == find(b, fa.parent)
    IN IF fa.root = fb.root
       THEN [ret |-> TRUE, parent |-> [fb.parent EXCEPT ![fb.root] = fa.root]]
       ELSE [ret |-> FALSE, parent |-> fb.parent]

\* mutant of union: find is not used, b itself is put under a
union_naive(a, b, parent) ==
    IF a # b
    THEN [ret |-> TRUE, parent |-> [parent EXCEPT ![b] = a]]
    ELSE [ret |-> FALSE, parent |-> parent]

\* union: attach b's root under a's root when the roots differ
union(a, b, parent) ==
    LET fa == find(a, parent)
        fb == find(b, fa.parent)
        root_a == fa.root
        root_b == fb.root
    IN IF root_a # root_b
       THEN [ret |-> TRUE, parent |-> [fb.parent EXCEPT ![root_b] = root_a]]
       ELSE [ret |-> FALSE, parent |-> fb.parent]

(***************************************************************************)
(* Kruskal (MST/kruskals.py)                                               *)
(***************************************************************************)
\* the inner loop of the edge collection: the neighbours nbrs of u, in order.
\* acc = [all_edges, processed_edges]
RECURSIVE CollectFrom(_, _, _, _)
CollectFrom(g, u, nbrs, acc) ==
    IF nbrs = <<>> THEN acc
    ELSE LET v == Head(nbrs)
             edge_key == {u, v}
             w == getWeight(g, u, v)
         IN IF edge_key \in acc.processed_edges
            THEN CollectFrom(g, u, Tail(nbrs), acc)
            ELSE IF w > 0
            THEN CollectFrom(g, u, Tail(nbrs),
                     [all_edges |-> Append(acc.all_edges, <<w, u, v>>),
                      processed_edges |-> acc.processed_edges \cup {edge_key}])
            ELSE CollectFrom(g, u, Tail(nbrs), acc)

\* the outer loop of the edge collection: the vertices us, in order
RECURSIVE CollectEdges(_, _, _)
CollectEdges(g, us, acc) ==
    IF us = <<>> THEN acc
    ELSE CollectEdges(g, Tail(us),
             CollectFrom(g, Head(us), neighbours(g, Head(us)), acc))

\* insert e behind every element of the sorted list whose key is <= e's key
RECURSIVE InsertByWeight(_, _)
InsertByWeight(e, sorted) ==
    IF sorted = <<>> THEN <<e>>
    ELSE IF Head(sorted)[1] <= e[1]
         THEN <<Head(sorted)>> \o InsertByWeight(e, Tail(sorted))
         ELSE <<e>> \o sorted

\* mutant of sort: the list is left in collection order
sort_unsorted(list) == list

\* insertion of the elements of list, first to last: ascending and stable
RECURSIVE SortFrom(_, _)
SortFrom(list, sorted) ==
    IF list = <<>> THEN sorted
    ELSE SortFrom(Tail(list), InsertByWeight(Head(list), sorted))

\* all_edges.sort(key = lambda x: x[0])
sort(list) == SortFrom(list, <<>>)

\* mutant of the loop: the result of union is ignored, every edge is added
RECURSIVE ProcessEdges_unchecked(_, _)
ProcessEdges_unchecked(edges, st) ==
    IF edges = <<>> THEN st
    ELSE LET w == Head(edges)[1]
             u == Head(edges)[2]
             v == Head(edges)[3]
             un == union(u, v, st.parent)
         IN ProcessEdges_unchecked(Tail(edges),
                [parent |-> un.parent, mst |-> addEdge(st.mst, u, v, w).g])

\* mutant of the loop: the edge is added with addEdge's default weight
RECURSIVE ProcessEdges_defaultWeight(_, _)
ProcessEdges_defaultWeight(edges, st) ==
    IF edges = <<>> THEN st
    ELSE LET w == Head(edges)[1]
             u == Head(edges)[2]
             v == Head(edges)[3]
             un == union(u, v, st.parent)
         IN IF un.ret
            THEN ProcessEdges_defaultWeight(Tail(edges),
                     [parent |-> un.parent, mst |-> addEdge(st.mst, u, v, 1).g])
            ELSE ProcessEdges_defaultWeight(Tail(edges),
                     [parent |-> un.parent, mst |-> st.mst])

\* the loop over the sorted edges: union, then addEdge when union succeeds.
\* st = [parent, mst]
RECURSIVE ProcessEdges(_, _)
ProcessEdges(edges, st) ==
    IF edges = <<>> THEN st
    ELSE LET w == Head(edges)[1]
             u == Head(edges)[2]
             v == Head(edges)[3]
             un == union(u, v, st.parent)
         IN IF un.ret
            THEN ProcessEdges(Tail(edges),
                     [parent |-> un.parent, mst |-> addEdge(st.mst, u, v, w).g])
            ELSE ProcessEdges(Tail(edges), [parent |-> un.parent, mst |-> st.mst])

\* mutant of the construction: no new object, the result is the input itself
Allocate_alias(h, g) == h

\* type(graph)(rows, cols): a new object at the end of the heap
Allocate(h, g) == Append(h, g)

\* kruskalMST on the object h[ref]: the heap after the call and the
\* reference it returns
kruskalMST(h, ref) ==
    IF getVertices(h[ref]) = <<>>
    THEN LET h1 == Allocate(h, NewGraph(h[ref].rows, h[ref].cols))
         IN [heap |-> h1, ret |-> Len(h1)]
    ELSE LET h1 == Allocate(h, NewGraph(h[ref].rows, h[ref].cols))
             m == Len(h1)
             vertices == getVertices(h1[ref])
             h2 == [h1 EXCEPT ![m] = addVertices(h1[m], vertices)]
             all_edges == sort(CollectEdges(h2[ref], vertices,
                              [all_edges |-> <<>>, processed_edges |-> {}]).all_edges)
             parent == [x \in {vertices[i] : i \in DOMAIN vertices} |-> x]
             done == ProcessEdges(all_edges, [parent |-> parent, mst |-> h2[m]])
         IN [heap |-> [h2 EXCEPT ![m] = done.mst], ret |-> m]

(***************************************************************************)
(* The state machine.  heap[graph] is the caller's graph; mst is the       *)
(* reference kruskalMST returned (0 before the call).  forest is the       *)
(* parent mapping a caller of union and find holds (empty when there      *)
(* is none: kruskalMST's own mapping lives and dies within the call).      *)
(***************************************************************************)
\* the lists a caller hands to addVertices
VertexLists == UNION {[1..n -> Coords] : n \in 0..MaxList}

\* the (rows, cols) a caller constructs its graph with: the grid that just
\* holds every coordinate, and a wider one (the shape is not enforced
\* against the coordinates)
Shapes == {<<MaxRow + 1, MaxCol + 1>>, <<MaxRow + 1, MaxCol + 2>>}

Init ==
    /\ \E shape \in Shapes : heap = <<NewGraph(shape[1], shape[2])>>
    /\ graph = 1
    /\ mst = 0
    /\ phase = "build"
    /\ forest = <<>>

\* the object the caller's next Graph call goes to: its own graph while building, the returned graph once kruskalMST is done
Target == IF phase = "build" THEN graph ELSE mst

CallAddVertex(label) ==
    heap' = [heap EXCEPT ![Target] = addVertex(heap[Target], label)]

CallAddVertices(vertLabels) ==
    heap' = [heap EXCEPT ![Target] = addVertices(heap[Target], vertLabels)]

CallAddEdge(vert1, vert2, weight) ==
    heap' = [heap EXCEPT ![Target] = addEdge(heap[Target], vert1, vert2, weight).g]

CallUpdateWall(vert1, vert2, hasWall, weight) ==
    heap' = [heap EXCEPT ![Target] = updateWall(heap[Target], vert1, vert2, hasWall, weight).g]

CallRemoveEdge(vert1, vert2) ==
    heap' = [heap EXCEPT ![Target] = removeEdge(heap[Target], vert1, vert2).g]

\* the caller builds its graph
AddVertex ==
    /\ phase = "build"
    /\ \E label \in Coords : CallAddVertex(label)
    /\ UNCHANGED <<graph, mst, phase, forest>>

AddVertices ==
    /\ phase = "build"
    /\ \E vertLabels \in VertexLists : CallAddVertices(vertLabels)
    /\ UNCHANGED <<graph, mst, phase, forest>>

AddEdge ==
    /\ phase = "build"
    /\ \E vert1 \in Coords, vert2 \in Coords, weight \in Weights :
           CallAddEdge(vert1, vert2, weight)
    /\ UNCHANGED <<graph, mst, phase, forest>>

UpdateWall ==
    /\ phase = "build"
    /\ \E vert1 \in Coords, vert2 \in Coords, hasWall \in BOOLEAN,
          weight \in Weights :
           CallUpdateWall(vert1, vert2, hasWall, weight)
    /\ UNCHANGED <<graph, mst, phase, forest>>

RemoveEdge ==
    /\ phase = "build"
    /\ \E vert1 \in Coords, vert2 \in Coords : CallRemoveEdge(vert1, vert2)
    /\ UNCHANGED <<graph, mst, phase, forest>>

\* the caller hands its graph to kruskalMST and keeps the reference returned
Kruskal ==
    /\ phase = "build"
    /\ LET r == kruskalMST(heap, graph)
       IN /\ heap' = r.heap
          /\ mst' = r.ret
    /\ phase' = "done"
    /\ UNCHANGED <<graph, forest>>

\* the caller, owning the returned graph, mutates it once
MutateResult ==
    /\ phase = "done"
    /\ \/ \E label \in Coords : CallAddVertex(label)
       \/ \E vert1 \in Coords, vert2 \in Coords, weight \in Weights :
              CallAddEdge(vert1, vert2, weight)
       \/ \E vert1 \in Coords, vert2 \in Coords, hasWall \in BOOLEAN,
             weight \in Weights :
              CallUpdateWall(vert1, vert2, hasWall, weight)
    /\ phase' = "mutated"
    /\ UNCHANGED <<graph, mst, forest>>

\* a caller of the disjoint-set functions: every vertex of a non-empty
\* vertex set its own parent, as in  parent = {v: v for v in vertices}
InitUF ==
    /\ heap = <<NewGraph(MaxRow + 1, MaxCol + 1)>>
    /\ graph = 1
    /\ mst = 0
    /\ phase = "unionfind"
    /\ \E V \in (SUBSET Coords) \ {{}} : forest = [x \in V |-> x]

\* union(a, b, parent): the mapping is mutated in place
Union ==
    /\ phase = "unionfind"
    /\ \E a \in DOMAIN forest : \E b \in DOMAIN forest :
           forest' = union(a, b, forest).parent
    /\ UNCHANGED <<heap, graph, mst, phase>>

\* find(coord, parent): the mapping is mutated in place (path compression)
Find ==
    /\ phase = "unionfind"
    /\ \E coord \in DOMAIN forest : forest' = find(coord, forest).parent
    /\ UNCHANGED <<heap, graph, mst, phase>>

\* any sequence of union and find calls from the all-singletons mapping
NextUF == Union \/ Find

SpecUF == InitUF /\ [][NextUF]_vars

\* the public Graph operations only
NextGraph == AddVertex \/ AddVertices \/ AddEdge \/ UpdateWall \/ RemoveEdge

SpecGraph == Init /\ [][NextGraph]_vars

\* the Graph operations, then kruskalMST
Next == AddVertex \/ AddVertices \/ AddEdge \/ UpdateWall \/ RemoveEdge \/ Kruskal

Spec == Init /\ [][Next]_vars

\* the Graph operations, kruskalMST, then a mutation of the returned graph
NextOwn ==
    \/ AddVertex \/ AddVertices \/ AddEdge \/ UpdateWall \/ RemoveEdge
    \/ Kruskal \/ MutateResult

SpecOwn == Init /\ [][NextOwn]_vars

(***************************************************************************)
(* Graph theory used to state the properties (independent of the code).    *)
(***************************************************************************)
\* the set of vertices of g
VertexSet(g) == {g.vertices[i] : i \in DOMAIN g.vertices}

\* the directed entries <<u, v, w>> stored in g's adjacency lists
Entries(g) ==
    UNION {{<<u, g.adj_list[u][i][1], g.adj_list[u][i][2]>> :
               i \in DOMAIN g.adj_list[u]} : u \in DOMAIN g.adj_list}

\* the traversable entries: those of positive weight
Traversable(g) == {e \in Entries(g) : e[3] > 0}

\* the undirected traversable edges, as sets {u, v}
UEdges(g) == {{e[1], e[2]} : e \in Traversable(g)}

\* the number of stored entries, all lists together
RECURSIVE EntryCount(_, _)
EntryCount(g, us) ==
    IF us = {} THEN 0
    ELSE LET u == CHOOSE x \in us : TRUE
         IN Len(g.adj_list[u]) + EntryCount(g, us \ {u})

\* the sum of the weights of a set of entries
RECURSIVE SumWeights(_)
SumWeights(es) ==
    IF es = {} THEN 0
    ELSE LET e == CHOOSE x \in es : TRUE
         IN e[3] + SumWeights(es \ {e})

\* one entry <<u, v, w>> with u before v for each undirected edge of E
OneWay(es, E) == {e \in es : {e[1], e[2]} \in E /\ \A d \in es :
                     ({d[1], d[2]} = {e[1], e[2]} /\ d[1] # e[1]) =>
                         (e[1][1] < d[1][1] \/
                          (e[1][1] = d[1][1] /\ e[1][2] < d[1][2]))}

\* the total weight of g: every undirected edge counted once
TotalWeight(g) == SumWeights(OneWay(Traversable(g), UEdges(g)))

\* the vertices reachable from the set S over the undirected edges E
RECURSIVE Reach(_, _)
Reach(E, S) ==
    LET T == S \cup UNION {e \in E : e \cap S # {}}
    IN IF T = S THEN S ELSE Reach(E, T)

Connected(E, u, v) == v \in Reach(E, {u})

\* the number of connected components of (V, E), isolated vertices included
NumComponents(V, E) == Cardinality({Reach(E, {v}) : v \in V})

\* F is a spanning forest of (V, E): acyclic, and connecting what E connects
IsSpanningForest(V, E, F) ==
    /\ F \subseteq E
    /\ Cardinality(F) = Cardinality(V) - NumComponents(V, F)
    /\ \A v \in V : Reach(F, {v}) = Reach(E, {v})

\* the least total weight of a spanning forest of g
MinForestWeight(g) ==
    LET V == VertexSet(g)
        E == UEdges(g)
        es == Traversable(g)
        Ws == {SumWeights(OneWay(es, F)) :
                  F \in {X \in SUBSET E : IsSpanningForest(V, E, X)}}
    IN CHOOSE w \in Ws : \A x \in Ws : w <= x

\* the graph the caller handed to kruskalMST, and the graph it got back
Input == heap[graph]
Result == heap[mst]

\* the 2x2 fixture with weights 1, 4, 2, 1, built through the public
\* operations, and what kruskalMST returns for it
Fixture ==
    LET g0 == addVertices(NewGraph(2, 2), <<<<0, 0>>, <<0, 1>>, <<1, 0>>, <<1, 1>>>>)
        g1 == addEdge(g0, <<0, 0>>, <<0, 1>>, 1).g
        g2 == addEdge(g1, <<0, 0>>, <<1, 0>>, 4).g
        g3 == addEdge(g2, <<0, 1>>, <<1, 1>>, 2).g
    IN addEdge(g3, <<1, 0>>, <<1, 1>>, 1).g

FixtureResult ==
    LET r == kruskalMST(<<Fixture>>, 1) IN r.heap[r.ret]

(***************************************************************************)
(* Properties of kruskalMST                                                *)
(***************************************************************************)
\* C1: the total weight of the graph kruskalMST returns is the least total
\* weight of a spanning forest of its input; on the 2x2 fixture with
\* weights 1, 4, 2, 1 the result has total weight 4.
MSTWeightMinimal ==
    /\ phase = "done" => TotalWeight(Result) = MinForestWeight(Input)
    /\ TotalWeight(FixtureResult) = 4

\* a run of kruskalMST on a graph with a cycle, two distinct weights on it
MSTWeightMinimalWitness ==
    /\ phase = "done"
    /\ Cardinality(UEdges(Input)) = 4
    /\ Cardinality({e[3] : e \in Traversable(Input)}) >= 2
    /\ Cardinality(UEdges(Result)) = 3

\* C2: with V vertices and c connected components in the input, the graph
\* kruskalMST returns has exactly V - c undirected edges (V - 1 when the
\* input is connected).
MSTEdgeCount ==
    phase = "done" =>
        LET V == VertexSet(Input)
            c == NumComponents(V, UEdges(Input))
        IN /\ Cardinality(UEdges(Result)) = Cardinality(V) - c
           /\ EntryCount(Result, DOMAIN Result.adj_list) = 2 * (Cardinality(V) - c)

\* a run on a disconnected input: two components, each with an edge
MSTEdgeCountWitness ==
    /\ phase = "done"
    /\ Cardinality(VertexSet(Input)) = 4
    /\ NumComponents(VertexSet(Input), UEdges(Input)) = 2
    /\ Cardinality(UEdges(Result)) = 2

\* every edge of E passes a fresh union-find: each union call returns true
RECURSIVE UnionFindAcyclic(_, _)
UnionFindAcyclic(E, parent) ==
    IF E = {} THEN TRUE
    ELSE LET e == CHOOSE x \in E : TRUE
             u == CHOOSE x \in e : TRUE
             v == CHOOSE x \in e : x # u
             r == union(u, v, parent)
         IN r.ret /\ UnionFindAcyclic(E \ {e}, r.parent)

\* C3: the graph kruskalMST returns is acyclic: run through a fresh
\* union-find (every vertex a singleton) every union over its edges returns
\* true, i.e. no edge joins two vertices the other edges already connect.
MSTNoCycle ==
    phase = "done" =>
        LET V == VertexSet(Result)
            F == UEdges(Result)
        IN /\ UnionFindAcyclic(F, [x \in V |-> x])
           /\ \A e \in F : \A u \in e : \A v \in e \ {u} :
                  ~Connected(F \ {e}, u, v)

\* a run on an input that does contain a cycle
MSTNoCycleWitness ==
    /\ phase = "done"
    /\ Cardinality(UEdges(Input)) = 4
    /\ Cardinality(UEdges(Result)) = 3
    /\ \E e \in UEdges(Input) : \A u \in e : \A v \in e \ {u} :
           Connected(UEdges(Input) \ {e}, u, v)

\* C4: the result spans every component of the input: two vertices are
\* connected by traversable edges of the input iff they are connected by
\* edges of the graph returned.
MSTSpansComponents ==
    phase = "done" =>
        \A u \in VertexSet(Input) : \A v \in VertexSet(Input) :
            Connected(UEdges(Input), u, v) <=> Connected(UEdges(Result), u, v)

\* a run on an input with a component of three vertices and an isolated one
MSTSpansComponentsWitness ==
    /\ phase = "done"
    /\ Cardinality(VertexSet(Input)) = 4
    /\ Cardinality(UEdges(Input)) = 2
    /\ NumComponents(VertexSet(Input), UEdges(Input)) = 2
    /\ \E v \in VertexSet(Result) : Cardinality(Reach(UEdges(Result), {v})) = 3

\* C5: kruskalMST never mutates its input (vertex list, adjacency lists,
\* rows, cols are as before the call), and the graph it returns is a distinct
\* instance: mutating it afterwards leaves the input as it was.
MSTInputUntouched ==
    [][/\ (phase = "build" /\ phase' = "done") =>
              (graph' = graph /\ heap'[graph] = heap[graph] /\ mst' # graph)
       /\ phase = "done" => heap'[graph] = heap[graph]]_vars

\* the caller removed an edge from the graph it got back
MSTInputUntouchedWitness ==
    /\ phase = "mutated"
    /\ Cardinality(UEdges(Input)) = 4
    /\ Cardinality(UEdges(Result)) = 2

\* C6: the graph kruskalMST returns has the rows and cols of the input and
\* exactly the input's vertices in the same insertion order, whatever the
\* number of edges of the input.
MSTShapeAndVertices ==
    phase = "done" =>
        /\ Result.rows = Input.rows
        /\ Result.cols = Input.cols
        /\ Result.vertices = Input.vertices
        /\ DOMAIN Result.adj_list = VertexSet(Input)

\* a run on a graph of three vertices, not in row-major order, in a
\* non-square shape
MSTShapeAndVerticesWitness ==
    /\ phase = "done"
    /\ Input.rows # Input.cols
    /\ Result.vertices = <<<<1, 1>>, <<0, 0>>, <<0, 1>>>>
    /\ Cardinality(UEdges(Input)) = 2

\* C7: kruskalMST on a graph without vertices returns, without an error, a
\* graph with the same rows and cols, no vertices and no edges.
MSTEmptyGraph ==
    (phase = "done" /\ Input.vertices = <<>>) =>
        /\ mst \in DOMAIN heap
        /\ Result.rows = Input.rows
        /\ Result.cols = Input.cols
        /\ Result.vertices = <<>>
        /\ DOMAIN Result.adj_list = {}

\* a run on the empty graph of a non-square shape
MSTEmptyGraphWitness ==
    /\ phase = "done"
    /\ Input.vertices = <<>>
    /\ Input.rows # Input.cols
    /\ Result = NewGraph(Input.rows, Input.cols)

(***************************************************************************)
(* Properties of the Graph operations                                      *)
(***************************************************************************)
\* orthogonal neighbours: same row and columns one apart, or same column
\* and rows one apart
GridAdjacent(u, v) ==
    \/ u[1] = v[1] /\ (u[2] = v[2] + 1 \/ v[2] = u[2] + 1)
    \/ u[2] = v[2] /\ (u[1] = v[1] + 1 \/ v[1] = u[1] + 1)

\* an entry for the pair u, v is stored, in u's list or in v's
Stored(g, u, v) == \E e \in Entries(g) : {e[1], e[2]} = {u, v}

\* C8: addEdge(u, v, w) returns true exactly when u and v are present
\* vertices, adjacent, w > 0 and no edge between u and v is stored; in every
\* other case it returns false and leaves the vertex list and every
\* adjacency list unchanged.
AddEdgeContract ==
    \A u \in Coords : \A v \in Coords : \A w \in Weights :
        LET r == addEdge(Input, u, v, w)
            ok == /\ u \in VertexSet(Input)
                  /\ v \in VertexSet(Input)
                  /\ GridAdjacent(u, v)
                  /\ w > 0
                  /\ ~Stored(Input, u, v)
        IN /\ r.ret <=> ok
           /\ ~ok => r.g = Input

\* a graph in which addEdge meets every case: an absent vertex, a stored
\* edge (added by an earlier call) and an adjacent pair without an edge
AddEdgeContractWitness ==
    /\ Cardinality(VertexSet(Input)) = 3
    /\ \E u \in Coords : \E v \in Coords :
           /\ Stored(Input, u, v)
           /\ ~addEdge(Input, u, v, 1).ret
    /\ \E u \in Coords : \E v \in Coords : addEdge(Input, u, v, 1).ret

\* C9: the edge relation is symmetric in every state the Graph operations
\* reach: hasEdge(u, v) = hasEdge(v, u), getWeight(u, v) = getWeight(v, u),
\* and v is in u's list with weight w iff u is in v's list with weight w.
EdgeSymmetry ==
    \A u \in Coords : \A v \in Coords :
        /\ hasEdge(Input, u, v) <=> hasEdge(Input, v, u)
        /\ getWeight(Input, u, v) = getWeight(Input, v, u)
        /\ \A e \in Entries(Input) : <<e[2], e[1], e[3]>> \in Entries(Input)

\* a graph with two edges of different weights
EdgeSymmetryWitness ==
    \E u \in Coords : \E v \in Coords : \E x \in Coords :
        /\ hasEdge(Input, u, v) /\ getWeight(Input, v, u) = 1
        /\ hasEdge(Input, v, x) /\ getWeight(Input, x, v) = 2

\* C10: every stored adjacency entry has weight > 0, whatever integer
\* weights the operations were called with; getWeight(u, v) is never
\* negative, it is the stored positive weight when an edge exists and 0
\* otherwise.
PositiveWeights ==
    /\ \A e \in Entries(Input) : e[3] > 0
    /\ \A u \in Coords : \A v \in Coords :
           /\ getWeight(Input, u, v) >= 0
           /\ (\E w \in Weights : <<u, v, w>> \in Entries(Input)) =>
                  /\ getWeight(Input, u, v) > 0
                  /\ <<u, v, getWeight(Input, u, v)>> \in Entries(Input)
           /\ (\A w \in Weights : <<u, v, w>> \notin Entries(Input)) =>
                  getWeight(Input, u, v) = 0

\* a graph with a stored edge of the largest weight and an adjacent pair of
\* present vertices without an edge
PositiveWeightsWitness ==
    /\ \E e \in Entries(Input) : e[3] = MaxWeight
    /\ \E u \in VertexSet(Input) : \E v \in VertexSet(Input) :
           GridAdjacent(u, v) /\ getWeight(Input, u, v) = 0

\* C11: every stored edge joins two vertices that are both present and
\* orthogonally adjacent (Manhattan distance exactly 1): no self-loop and no
\* edge between non-adjacent coordinates is ever stored.
EdgesOnlyBetweenAdjacent ==
    /\ DOMAIN Input.adj_list = VertexSet(Input)
    /\ \A e \in Entries(Input) :
           /\ e[1] \in VertexSet(Input)
           /\ e[2] \in VertexSet(Input)
           /\ e[1] # e[2]
           /\ GridAdjacent(e[1], e[2])

\* a graph with a stored edge, and two present vertices that are not
\* adjacent (a diagonal of the grid)
EdgesOnlyBetweenAdjacentWitness ==
    /\ Entries(Input) # {}
    /\ \E u \in VertexSet(Input) : \E v \in VertexSet(Input) :
           u # v /\ ~GridAdjacent(u, v)

\* C12: each vertex's adjacency list has at most one entry per neighbour,
\* also after repeated updateWall(u, v, false, w) calls with differing
\* weights and argument order.
OneEntryPerNeighbour ==
    \A u \in DOMAIN Input.adj_list :
        \A i \in DOMAIN Input.adj_list[u] : \A j \in DOMAIN Input.adj_list[u] :
            Input.adj_list[u][i][1] = Input.adj_list[u][j][1] => i = j

\* a vertex with two neighbours, the second entry re-weighted or added with
\* the largest weight
OneEntryPerNeighbourWitness ==
    \E u \in DOMAIN Input.adj_list :
        /\ Len(Input.adj_list[u]) = 2
        /\ Input.adj_list[u][1][2] = 1
        /\ Input.adj_list[u][2][2] = MaxWeight

\* C13: updateWall(u, v, hasWall, w) returns false and leaves the graph
\* unchanged whenever u or v is absent, u and v are not adjacent, or hasWall
\* is false and w <= 0; in all remaining cases it returns true.
UpdateWallContract ==
    \A u \in Coords : \A v \in Coords : \A hasWall \in BOOLEAN :
        \A w \in Weights :
            LET r == updateWall(Input, u, v, hasWall, w)
                rejected == \/ u \notin VertexSet(Input)
                            \/ v \notin VertexSet(Input)
                            \/ ~GridAdjacent(u, v)
                            \/ (~hasWall /\ w <= 0)
            IN /\ rejected => (~r.ret /\ r.g = Input)
               /\ ~rejected => r.ret

\* a graph in which updateWall meets every case: an absent vertex, a stored
\* edge and an adjacent pair of present vertices without an edge
UpdateWallContractWitness ==
    /\ Cardinality(VertexSet(Input)) = 3
    /\ \E u \in Coords : \E v \in Coords :
           Stored(Input, u, v) /\ updateWall(Input, u, v, FALSE, MaxWeight).ret
    /\ \E u \in Coords : \E v \in Coords :
           ~Stored(Input, u, v) /\ updateWall(Input, u, v, TRUE, 0).ret

\* the entries of g that are not between u and v
OtherEntries(g, u, v) == {e \in Entries(g) : {e[1], e[2]} # {u, v}}

\* C14: for present, adjacent u, v and w > 0, updateWall(u, v, false, w)
\* returns true and afterwards getWeight(u, v) = getWeight(v, u) = w,
\* whether an edge between u and v existed (weight overwritten in both
\* directions) or not (new symmetric edge); all other edges are unchanged.
UpdateWallSetsWeight ==
    \A u \in VertexSet(Input) : \A v \in VertexSet(Input) :
        \A w \in Weights :
            (GridAdjacent(u, v) /\ w > 0) =>
                LET r == updateWall(Input, u, v, FALSE, w)
                IN /\ r.ret
                   /\ getWeight(r.g, u, v) = w
                   /\ getWeight(r.g, v, u) = w
                   /\ Entries(r.g) \ OtherEntries(r.g, u, v) =
                          {<<u, v, w>>, <<v, u, w>>}
                   /\ OtherEntries(r.g, u, v) = OtherEntries(Input, u, v)
                   /\ r.g.vertices = Input.vertices
                   /\ \A x \in DOMAIN Input.adj_list :
                          Len(r.g.adj_list[x]) =
                              Len(Input.adj_list[x]) +
                              (IF x \in {u, v} /\ ~Stored(Input, u, v)
                               THEN 1 ELSE 0)

\* a graph holding an edge of weight 1 updateWall can overwrite, another
\* edge, and an adjacent pair without an edge updateWall can insert
UpdateWallSetsWeightWitness ==
    /\ Cardinality(UEdges(Input)) = 2
    /\ \E u \in VertexSet(Input) : \E v \in VertexSet(Input) :
           /\ getWeight(Input, u, v) = 1
           /\ getWeight(updateWall(Input, u, v, FALSE, MaxWeight).g, v, u) = MaxWeight
    /\ \E u \in VertexSet(Input) : \E v \in VertexSet(Input) :
           /\ GridAdjacent(u, v) /\ ~Stored(Input, u, v)
           /\ updateWall(Input, u, v, FALSE, 1).ret

\* C15: wall toggling is idempotent: updateWall(u, v, true) twice in a row
\* leaves the graph as one call does (removeEdge(u, v) is the same call);
\* for present adjacent u, v both calls return true even when no edge
\* existed; afterwards hasEdge(u, v) and hasEdge(v, u) are false.
WallToggleIdempotent ==
    \A u \in Coords : \A v \in Coords :
        LET once == updateWall(Input, u, v, TRUE, 1)
            twice == updateWall(once.g, u, v, TRUE, 1)
            rem == removeEdge(Input, u, v)
        IN /\ twice.g = once.g
           /\ rem = once
           /\ removeEdge(once.g, u, v) = twice
           /\ (u \in VertexSet(Input) /\ v \in VertexSet(Input)
                   /\ GridAdjacent(u, v)) => (once.ret /\ twice.ret)
           /\ ~hasEdge(once.g, u, v)
           /\ ~hasEdge(once.g, v, u)
           /\ OtherEntries(once.g, u, v) = OtherEntries(Input, u, v)

\* a graph with a stored edge the call removes and an adjacent pair without
\* an edge, for which the call still returns true
WallToggleIdempotentWitness ==
    /\ \E u \in Coords : \E v \in Coords :
           hasEdge(Input, u, v) /\ updateWall(Input, u, v, TRUE, 1).g # Input
    /\ \E u \in VertexSet(Input) : \E v \in VertexSet(Input) :
           /\ GridAdjacent(u, v) /\ ~Stored(Input, u, v)
           /\ updateWall(Input, u, v, TRUE, 1).ret

\* C16: getWallStatus(u, v) is true iff u and v are not adjacent, or either
\* is not a vertex, or no edge is stored between them; hence
\* getWallStatus(u, v) = ~hasEdge(u, v) for all u, v.
WallStatusIsNoEdge ==
    \A u \in Coords : \A v \in Coords :
        /\ getWallStatus(Input, u, v) <=>
               \/ ~GridAdjacent(u, v)
               \/ u \notin VertexSet(Input)
               \/ v \notin VertexSet(Input)
               \/ ~Stored(Input, u, v)
        /\ getWallStatus(Input, u, v) <=> ~hasEdge(Input, u, v)

\* a graph with an absent vertex, a stored edge (no wall) and an adjacent
\* pair of present vertices without an edge (wall)
WallStatusIsNoEdgeWitness ==
    /\ Cardinality(VertexSet(Input)) = 3
    /\ \E u \in Coords : \E v \in Coords : ~getWallStatus(Input, u, v)
    /\ \E u \in VertexSet(Input) : \E v \in VertexSet(Input) :
           GridAdjacent(u, v) /\ getWallStatus(Input, u, v)

(***************************************************************************)
(* Properties of union-find                                                *)
(***************************************************************************)
\* the naive walk up the parent chain from x, without compression: the root
\* reached within fuel steps, or <<>> when none is
RECURSIVE Walk(_, _, _)
Walk(x, par, fuel) ==
    IF par[x] = x THEN x
    ELSE IF fuel = 0 THEN <<>>
    ELSE Walk(par[x], par, fuel - 1)

NaiveRoot(x, par) == Walk(x, par, Cardinality(DOMAIN par))

\* the vertices on the chain from x up to, not including, its root
RECURSIVE PathBelowRoot(_, _, _)
PathBelowRoot(x, par, fuel) ==
    IF par[x] = x \/ fuel = 0 THEN {}
    ELSE {x} \cup PathBelowRoot(par[x], par, fuel - 1)

Path(x, par) == PathBelowRoot(x, par, Cardinality(DOMAIN par))

\* C17: after any sequence of union calls on a map of self-parents, find(x)
\* returns the root a naive walk of the parent chain (no compression) reaches
\* on the map before the call, and find leaves the partition unchanged: it
\* only re-parents the vertices on x's chain to that root.
FindMatchesNaiveWalk ==
    phase = "unionfind" =>
        \A x \in DOMAIN forest :
            LET r == find(x, forest)
            IN /\ r.root = NaiveRoot(x, forest)
               /\ \A y \in DOMAIN forest :
                      NaiveRoot(y, r.parent) = NaiveRoot(y, forest)
               /\ \A y \in DOMAIN forest :
                      r.parent[y] = IF y \in Path(x, forest)
                                    THEN NaiveRoot(x, forest) ELSE forest[y]

\* a map with a chain of three vertices: find on the lowest one compresses
FindMatchesNaiveWalkWitness ==
    /\ phase = "unionfind"
    /\ \E x \in DOMAIN forest :
           /\ Cardinality(Path(x, forest)) = 2
           /\ find(x, forest).parent # forest
           /\ find(x, forest).root = forest[forest[x]]

\* C18 as stated: union(a, b, parent) on a and b of the same root performs
\* no mutation of the parent mapping and returns false.
UnionSameRootNoMutation ==
    phase = "unionfind" =>
        \A a \in DOMAIN forest : \A b \in DOMAIN forest :
            NaiveRoot(a, forest) = NaiveRoot(b, forest) =>
                LET r == union(a, b, forest)
                IN ~r.ret /\ r.parent = forest

\* C18, amended: union(a, b, parent) on a and b of the same root returns
\* false and unites nothing: every vertex keeps its root; the only changes
\* to the mapping are find's path compression, which re-parents the
\* vertices on the chains of a and b to their common root.
UnionSameRootKeepsSets ==
    phase = "unionfind" =>
        \A a \in DOMAIN forest : \A b \in DOMAIN forest :
            NaiveRoot(a, forest) = NaiveRoot(b, forest) =>
                LET r == union(a, b, forest)
                IN /\ ~r.ret
                   /\ \A y \in DOMAIN forest :
                          NaiveRoot(y, r.parent) = NaiveRoot(y, forest)
                   /\ \A y \in DOMAIN forest :
                          r.parent[y] =
                              IF y \in Path(a, forest) \cup Path(b, forest)
                              THEN NaiveRoot(a, forest) ELSE forest[y]

\* a map where a sits two steps below the root b of its set: union(a, b)
\* returns false and compresses a's chain
UnionSameRootKeepsSetsWitness ==
    /\ phase = "unionfind"
    /\ \E a \in DOMAIN forest : \E b \in DOMAIN forest :
           /\ a # b
           /\ NaiveRoot(a, forest) = b
           /\ forest[a] # b
           /\ ~union(a, b, forest).ret
           /\ union(a, b, forest).parent # forest

\* C20: after any sequence of union and find calls from the all-singletons
\* map the parent mapping is a forest: the parent chain of every vertex
\* stays among the vertices and reaches a self-parented root without
\* revisiting a vertex, so every find call terminates.
ParentIsForest ==
    phase = "unionfind" =>
        \A x \in DOMAIN forest :
            /\ forest[x] \in DOMAIN forest
            /\ NaiveRoot(x, forest) \in DOMAIN forest
            /\ forest[NaiveRoot(x, forest)] = NaiveRoot(x, forest)
            /\ Cardinality(Path(x, forest)) < Cardinality(DOMAIN forest)

\* a map with the longest chain four vertices allow
ParentIsForestWitness ==
    /\ phase = "unionfind"
    /\ \E x \in DOMAIN forest : Cardinality(Path(x, forest)) = 3

(***************************************************************************)
(* The insertion step of kruskalMST                                        *)
(***************************************************************************)
\* the sorted edge list kruskalMST builds for g
SortedEdges(g) ==
    sort(CollectEdges(g, getVertices(g),
             [all_edges |-> <<>>, processed_edges |-> {}]).all_edges)

\* the loop over the sorted edges, observed: the edges for which union
\* returned true, and those of them for which addEdge on the result graph
\* returned true.  st = [parent, mst, united, inserted]
RECURSIVE Observe(_, _)
Observe(edges, st) ==
    IF edges = <<>> THEN st
    ELSE LET e == Head(edges)
             un == union(e[2], e[3], st.parent)
             ad == addEdge(st.mst, e[2], e[3], e[1])
         IN IF un.ret
            THEN Observe(Tail(edges),
                     [parent |-> un.parent, mst |-> ad.g,
                      united |-> st.united \cup {e},
                      inserted |-> IF ad.ret THEN st.inserted \cup {e}
                                   ELSE st.inserted])
            ELSE Observe(Tail(edges), [st EXCEPT !.parent = un.parent])

\* the observation of a run of kruskalMST on g
ObservedRun(g) ==
    Observe(SortedEdges(g),
            [parent |-> [x \in VertexSet(g) |-> x],
             mst |-> addVertices(NewGraph(g.rows, g.cols), getVertices(g)),
             united |-> {}, inserted |-> {}])

\* C19: every edge of the graph kruskalMST returns is a traversable edge of
\* the input with the same weight, and every edge for which union returned
\* true is inserted (addEdge returns true at the insertion step), so the
\* number of result edges is the number of successful unions.
MSTEdgesFromInput ==
    phase = "done" =>
        LET run == ObservedRun(Input)
        IN /\ Entries(Result) \subseteq Traversable(Input)
           /\ run.inserted = run.united
           /\ \A e \in run.united :
                  /\ <<e[2], e[3], e[1]>> \in Entries(Result)
                  /\ <<e[3], e[2], e[1]>> \in Entries(Result)
           /\ Cardinality(UEdges(Result)) = Cardinality(run.united)
           /\ UEdges(Result) = {{e[2], e[3]} : e \in run.united}

\* a run on a cycle of four edges, three of them of the largest weight:
\* three unions succeed, and edges of both weights are inserted
MSTEdgesFromInputWitness ==
    /\ phase = "done"
    /\ Cardinality(UEdges(Input)) = 4
    /\ Cardinality(ObservedRun(Input).united) = 3
    /\ {e[3] : e \in Entries(Result)} = {1, MaxWeight}

====
